---- MODULE Spec2Model ----
(***************************************************************************)
(* Model of the curses log console of src/main.py: the TextComponent       *)
(* wrapper, the Console controller (buffer, scroll, cursor, input state    *)
(* machine, render pass) and its two threads: the caller thread, which     *)
(* calls log(), and the worker thread started by run(), which polls keys.  *)
(*                                                                         *)
(* A string is modelled as the sequence of its character codes, so that    *)
(* splitting, slicing, concatenation and length are those of the code.     *)
(***************************************************************************)
EXTENDS Integers, Sequences, FiniteSets, TLC

VARIABLES
    state,      \* Console.state: the mode
    buffer,     \* Console.buffer: sequence of TextComponent records
    width,      \* Console.width
    height,     \* Console.height
    scroll,     \* Console.scroll
    cursor_x,   \* Console.cursor_x
    cursor_y,   \* Console.cursor_y
    command,    \* Console.command
    pcW,        \* position of the worker thread (_run / update / on_keypress)
    lastKey,    \* the key the worker's last getch() returned (-1: none yet)
    pcL,        \* position of the caller thread inside log()
    logText,    \* the caller thread's local `text` inside log()
    appended,   \* history: the entries appended since the last clear()
    shown,      \* history: the entry the last render drew in DETAILS mode
    w_text,     \* wrapping harness: the input string
    w_width,    \* wrapping harness: the input width
    w_lines     \* wrapping harness: the result of TextComponent.lines

vars == <<state, buffer, width, height, scroll, cursor_x, cursor_y, command,
          pcW, lastKey, pcL, logText, appended, shown,
          w_text, w_width, w_lines>>

consoleVars == <<state, buffer, width, height, scroll, cursor_x, cursor_y, command>>
wrapVars == <<w_text, w_width, w_lines>>
histVars == <<appended, shown>>

-----------------------------------------------------------------------------
(* Bounds of the model.                                                    *)

\* Console.buffer_size is 1000 in the source (src/main.py:71); the model
\* checks the same code with a small capacity.
buffer_size == 1

\* log-producing steps are explored while |scroll| stays within this bound
\* (the code lets scroll drift without limit).
MaxScroll == 4

\* the user types commands of at most this length
MaxCommand == 1

\* the history harness follows at most this many appends after a clear()
MaxAppended == 3

\* the wrapping harness draws strings of at most this length
MaxWrapLen == 4

\* the wrapping harness draws widths 1..MaxWrapWidth
MaxWrapWidth == 3

-----------------------------------------------------------------------------
(* class State                                                             *)
LOGS == 0
DETAILS == 1
COMMAND == 2

(* class Key (the curses.KEY_* values are those of ncurses)                *)
UP == 259
DOWN == 258
HOME == 262
END == 360
RESIZE == 410
BACKSPACE == 8
ENTER == 10
ESCAPE == 27
SLASH == 47
CTRL_L == 12
J == 106
K == 107

\* curses.KEY_LEFT: a function key the console does not handle
KEY_LEFT == 260
\* getch() in nodelay mode when no key is waiting
NO_KEY == -1

NEWLINE == 10

\* None, where the code may hold a TextComponent
None == [none |-> TRUE]

\* None, where the code may hold a string (log's details argument): like the
\* empty string it is false in `details or "No details"`
NoString == <<>>

-----------------------------------------------------------------------------
(* String literals of the source, as character codes.                      *)

\* "No details"
NoDetails == <<78, 111, 32, 100, 101, 116, 97, 105, 108, 115>>
\* "Key pressed: "
KeyPressedPrefix == <<75, 101, 121, 32, 112, 114, 101, 115, 115, 101, 100, 58, 32>>
\* "Command executed: /"
CommandExecutedPrefix == <<67, 111, 109, 109, 97, 110, 100, 32, 101, 120, 101, 99, 117, 116, 101, 100, 58, 32, 47>>
\* "O comando /"
DetailsPrefix == <<79, 32, 99, 111, 109, 97, 110, 100, 111, 32, 47>>
\* " foi executado"
DetailsSuffix == <<32, 102, 111, 105, 32, 101, 120, 101, 99, 117, 116, 97, 100, 111>>
\* "[ESC]quit"
StatusDetails == <<91, 69, 83, 67, 93, 113, 117, 105, 116>>
\* "[ESC]quit | [^L]clear | [ENTER]details | [/]command"
StatusLogs == <<91, 69, 83, 67, 93, 113, 117, 105, 116, 32, 124, 32, 91, 94, 76, 93, 99, 108, 101, 97, 114, 32, 124, 32, 91, 69, 78, 84, 69, 82, 93, 100, 101, 116, 97, 105, 108, 115, 32, 124, 32, 91, 47, 93, 99, 111, 109, 109, 97, 110, 100>>

-----------------------------------------------------------------------------
(* Python helpers                                                          *)

Max(a, b) == IF a >= b THEN a ELSE b
Min(a, b) == IF a <= b THEN a ELSE b

\* str.split("\n"): the segments between newlines, empty ones included
RECURSIVE Split(_)
Split(s) ==
    IF \E i \in 1..Len(s) : s[i] = NEWLINE
    THEN LET i == CHOOSE j \in 1..Len(s) :
                      s[j] = NEWLINE /\ \A k \in 1..(j - 1) : s[k] # NEWLINE
         IN  <<SubSeq(s, 1, i - 1)>> \o Split(SubSeq(s, i + 1, Len(s)))
    ELSE <<s>>

\* " ".join(map(str, args))
RECURSIVE Join(_)
Join(args) ==
    IF Len(args) = 0 THEN <<>>
    ELSE IF Len(args) = 1 THEN args[1]
    ELSE args[1] \o <<32>> \o Join(Tail(args))

-----------------------------------------------------------------------------
(* class TextComponent                                                     *)

\* WrapLine with the loop test len(line) >= max_width
RECURSIVE WrapLineAtWidth(_, _)
WrapLineAtWidth(line, max_width) ==
    IF Len(line) >= max_width
    THEN <<SubSeq(line, 1, max_width)>>
             \o WrapLineAtWidth(SubSeq(line, max_width + 1, Len(line)), max_width)
    ELSE <<line>>

\* the inner while loop of lines/details on one segment
RECURSIVE WrapLine(_, _)
WrapLine(line, max_width) ==
    IF Len(line) > max_width
    THEN <<SubSeq(line, 1, max_width)>>
             \o WrapLine(SubSeq(line, max_width + 1, Len(line)), max_width)
    ELSE <<line>>

\* the outer for loop of lines/details over the segments
RECURSIVE WrapSegments(_, _)
WrapSegments(segs, max_width) ==
    IF Len(segs) = 0 THEN <<>>
    ELSE WrapLine(Head(segs), max_width) \o WrapSegments(Tail(segs), max_width)

TextComponent(content, details, max_width) ==
    [text |-> content, details |-> details, max_width |-> max_width]

TextComponent_details(t) == WrapSegments(Split(t.details), t.max_width)

TextComponent_lines(t) == WrapSegments(Split(t.text), t.max_width)

-----------------------------------------------------------------------------
(* class Console: the methods as functions of the object's fields          *)

Self == [state |-> state, buffer |-> buffer, width |-> width, height |-> height,
         scroll |-> scroll, cursor_x |-> cursor_x, cursor_y |-> cursor_y,
         command |-> command]

SetSelf(c) ==
    /\ state' = c.state
    /\ buffer' = c.buffer
    /\ width' = c.width
    /\ height' = c.height
    /\ scroll' = c.scroll
    /\ cursor_x' = c.cursor_x
    /\ cursor_y' = c.cursor_y
    /\ command' = c.command

\* Console.lines
RECURSIVE SumLines(_)
SumLines(buf) ==
    IF Len(buf) = 0 THEN 0
    ELSE Len(TextComponent_lines(Head(buf))) + SumLines(Tail(buf))

Console_lines(c) == SumLines(c.buffer)

\* Console.current_line
current_line(c) == c.cursor_y + c.scroll

\* Console._move_cursor
move_cursor(c, x, y) ==
    LET c1 == IF c.cursor_y + y < 0
              THEN [c EXCEPT !.scroll = Max(0, c.scroll + y)]
              ELSE IF c.cursor_y + y >= c.height
              THEN [c EXCEPT !.scroll = Min(Console_lines(c) - c.height, c.scroll + y)]
              ELSE c
    IN  [c1 EXCEPT
            !.cursor_x = Max(0, Min(c1.width - 1, c1.cursor_x + x)),
            !.cursor_y = Max(0, Min(Min(Console_lines(c1) - c1.scroll - 1,
                                        c1.cursor_y + y),
                                    c1.height - 1))]

\* Console._get_text
RECURSIVE get_text_from(_, _, _)
get_text_from(buf, current, line) ==
    IF Len(buf) = 0 THEN None
    ELSE LET cur == current + Len(TextComponent_lines(Head(buf)))
         IN  IF cur > line THEN Head(buf)
             ELSE get_text_from(Tail(buf), cur, line)

get_text(c, line) == get_text_from(c.buffer, 0, line)

(* Console.log, statement by statement                                     *)

\* lines 114-118: text = TextComponent(...)
log_text(c, args, details) ==
    TextComponent(Join(args),
                  IF details = NoString THEN NoDetails ELSE details,
                  c.width)

\* the eviction taking the newest entry instead of the oldest
log_evict_newest(c) ==
    IF Len(c.buffer) > buffer_size
    THEN [c EXCEPT !.buffer = SubSeq(c.buffer, 1, Len(c.buffer) - 1),
                   !.scroll = c.scroll - 1]
    ELSE c

\* lines 120-122: the eviction
log_evict(c) ==
    IF Len(c.buffer) > buffer_size
    THEN [c EXCEPT !.buffer = Tail(c.buffer), !.scroll = c.scroll - 1]
    ELSE c

\* line 124
log_append(c, text) == [c EXCEPT !.buffer = Append(c.buffer, text)]

\* lines 126-127: the cursor follows the newest line
log_nudge(c) ==
    IF c.cursor_y = Console_lines(c) - c.scroll - 2 /\ c.cursor_y < c.height - 1
    THEN move_cursor(c, 0, 1)
    ELSE c

\* lines 129-130
log_scroll(c, text) ==
    IF Len(c.buffer) > c.height
    THEN [c EXCEPT !.scroll = c.scroll + Len(TextComponent_lines(text))]
    ELSE c

\* Console.log
log(c, args, details) ==
    LET text == log_text(c, args, details)
    IN  log_scroll(log_nudge(log_append(log_evict(c), text)), text)

\* Console.clear
clear(c) == [c EXCEPT !.buffer = <<>>, !.scroll = 0, !.cursor_x = 0, !.cursor_y = 0]

\* on_command called after the command was cleared
on_command_cleared(c, cmd) ==
    log(c, <<CommandExecutedPrefix>>, DetailsPrefix \o DetailsSuffix)

\* Console.on_command: the message is built from self.command
on_command(c, cmd) ==
    log(c, <<CommandExecutedPrefix \o c.command>>,
        DetailsPrefix \o c.command \o DetailsSuffix)

\* Console._getmaxyx and Console.on_resize; (rows, cols) is what
\* screen.getmaxyx() returns
getmaxyx(rows, cols) == <<rows - 1, cols>>

on_resize(c, rows, cols) ==
    LET hw == getmaxyx(rows, cols)
        c1 == [c EXCEPT !.height = hw[1], !.width = hw[2]]
        c2 == [c1 EXCEPT !.scroll = Max(0, Len(c1.buffer) - c1.height)]
    IN  [c2 EXCEPT !.cursor_x = Max(0, Min(c2.width - 1, c2.cursor_x)),
                   !.cursor_y = Max(0, Min(c2.height - 1, c2.cursor_y))]

\* indexing a Python list: a negative index counts from the end
PyIndex(buf, idx) == IF idx >= 0 THEN buf[idx + 1] ELSE buf[Len(buf) + idx + 1]

\* Console.render, lines 214-220: the rows written in LOGS and COMMAND mode
RECURSIVE render_logs(_, _)
render_logs(c, i) ==
    IF i >= c.height THEN <<>>
    ELSE (IF i + c.scroll < Len(c.buffer)
          THEN TextComponent_lines(PyIndex(c.buffer, i + c.scroll))
          ELSE <<>>) \o render_logs(c, i + 1)

\* Console.render ends in an exception of the interpreter: in DETAILS when
\* _get_text returns None (None has no attribute details), else when
\* buffer[i + scroll] is out of range for the first row
render_raises(c) ==
    IF c.state = DETAILS
    THEN get_text(c, current_line(c)) = None
    ELSE c.height >= 1 /\ c.scroll < 0 - Len(c.buffer)

\* Console.render: what one call does to the window.  raised: the call ended
\* in an exception; content: the lines written, content[r + 1] at row r;
\* status: the text written at row height; cursor: the final screen.move.
render(c) ==
        IF render_raises(c)
        THEN [raised |-> TRUE, content |-> <<>>, status |-> <<>>, cursor |-> <<>>]
        ELSE [raised |-> FALSE,
              content |-> IF c.state = DETAILS
                          THEN TextComponent_details(get_text(c, current_line(c)))
                          ELSE render_logs(c, 0),
              status |-> IF c.state = COMMAND THEN <<SLASH>> \o c.command
                         ELSE IF c.state = DETAILS THEN StatusDetails
                         ELSE StatusLogs,
              cursor |-> IF c.state = COMMAND THEN <<c.height, Len(c.command) + 1>>
                         ELSE IF c.state = DETAILS THEN <<c.height - 1, 0>>
                         ELSE <<c.cursor_y, c.cursor_x>>]

\* case State.COMMAND with no limit on the length of the command
keypress_command_unbounded(c, key) ==
    IF key = ESCAPE THEN [c EXCEPT !.state = LOGS, !.command = <<>>]
    ELSE IF key = BACKSPACE
    THEN IF Len(c.command) > 0
         THEN [c EXCEPT !.command = SubSeq(c.command, 1, Len(c.command) - 1)]
         ELSE c
    ELSE IF key = ENTER
    THEN [on_command(c, c.command) EXCEPT !.state = LOGS, !.command = <<>>]
    ELSE IF 32 <= key /\ key <= 126
    THEN [c EXCEPT !.command = Append(c.command, key)]
    ELSE c

\* Console.on_keypress, case State.COMMAND (lines 156-170)
keypress_command(c, key) ==
    IF key = ESCAPE THEN [c EXCEPT !.state = LOGS, !.command = <<>>]
    ELSE IF key = BACKSPACE
    THEN IF Len(c.command) > 0
         THEN [c EXCEPT !.command = SubSeq(c.command, 1, Len(c.command) - 1)]
         ELSE c
    ELSE IF key = ENTER
    THEN [on_command(c, c.command) EXCEPT !.state = LOGS, !.command = <<>>]
    ELSE IF Len(c.command) < c.width - 2 /\ 32 <= key /\ key <= 126
    THEN [c EXCEPT !.command = Append(c.command, key)]
    ELSE c

\* case State.DETAILS with Ctrl-L handled as in the default case
keypress_details_clears(c, key) ==
    IF key = ESCAPE THEN [c EXCEPT !.state = LOGS]
    ELSE IF key = CTRL_L THEN clear(c)
    ELSE c

\* case State.DETAILS with every key ignored
keypress_details_ignored(c, key) == c

\* Console.on_keypress, case State.DETAILS (lines 171-174)
keypress_details(c, key) ==
    IF key = ESCAPE THEN [c EXCEPT !.state = LOGS] ELSE c

\* Console.on_keypress, the default case: State.LOGS (lines 175-196), but for
\* Escape, which calls quit().  (rows, cols) is what screen.getmaxyx()
\* returns if the key is a resize.
keypress_logs(c, key, rows, cols) ==
    IF key = ESCAPE THEN c
    ELSE IF key = CTRL_L THEN clear(c)
    ELSE IF key = END THEN move_cursor(c, 0, Len(c.buffer))
    ELSE IF key = HOME THEN move_cursor(c, 0, 0 - Len(c.buffer))
    ELSE IF key = ENTER THEN [c EXCEPT !.state = DETAILS]
    ELSE IF key = SLASH THEN [c EXCEPT !.state = COMMAND]
    ELSE IF key = UP \/ key = K THEN move_cursor(c, 0, 0 - 1)
    ELSE IF key = DOWN \/ key = J THEN move_cursor(c, 0, 1)
    ELSE IF key = RESIZE THEN on_resize(c, rows, cols)
    ELSE log(c, <<KeyPressedPrefix \o <<key>> >>, NoString)

\* Console.on_keypress without its final render: the fields after the match
\* statement, and whether quit() was called (exit() then ends the thread).
on_keypress(c, key, rows, cols) ==
    IF c.state = COMMAND
    THEN [quit |-> FALSE, c |-> keypress_command(c, key)]
    ELSE IF c.state = DETAILS
    THEN [quit |-> FALSE, c |-> keypress_details(c, key)]
    ELSE [quit |-> key = ESCAPE, c |-> keypress_logs(c, key, rows, cols)]

\* Console.on_keypress calls self.log: through on_command for Enter in
\* COMMAND mode (line 165), and in the last case of the default match (196)
on_keypress_logs(c, key) ==
    \/ c.state = COMMAND /\ key = ENTER
    \/ /\ c.state = LOGS
       /\ key \notin {ESCAPE, CTRL_L, END, HOME, ENTER, SLASH, UP, K, DOWN, J,
                      RESIZE}

-----------------------------------------------------------------------------
(* The environment: the terminal and the caller of log().                  *)

\* the (rows, cols) the terminal reports
Dims == {<<2, 20>>, <<3, 20>>, <<4, 20>>}

\* the keys getch() delivers ("j" and "k" act as DOWN and UP in on_keypress
\* and are not delivered; "/" is the printable character the user types)
Keys == {UP, DOWN, HOME, END, RESIZE, BACKSPACE, ENTER, ESCAPE, SLASH, CTRL_L,
         KEY_LEFT}

\* the calls of log() the caller thread makes: log("a", "b\nc"), which
\* logs the two-line text "a b\nc"
LogCalls == {[args |-> <<<<97>>, <<98, NEWLINE, 99>>>>, details |-> NoString]}

\* the sizes of a narrow terminal: one content row, one to three columns
NarrowDims == {<<2, 1>>, <<2, 2>>, <<2, 3>>}

InScrollBound(c) == 0 - MaxScroll <= c.scroll /\ c.scroll <= MaxScroll

\* the user types at most MaxCommand characters of a command
InCommandBound(c) == Len(c.command) <= MaxCommand

-----------------------------------------------------------------------------
(* The state machine.                                                      *)

\* Console.__init__ followed by run(): the fields' class defaults, the
\* terminal's size, an empty buffer, one render; the worker is at its loop.
InitConsoleAt(d) ==
    /\ height = getmaxyx(d[1], d[2])[1]
    /\ width = getmaxyx(d[1], d[2])[2]
    /\ state = LOGS
    /\ buffer = <<>>
    /\ scroll = 0
    /\ cursor_x = 0
    /\ cursor_y = 0
    /\ command = <<>>
    /\ pcW = "poll"
    /\ lastKey = NO_KEY
    /\ pcL = "idle"
    /\ logText = None
    /\ appended = <<>>
    /\ shown = None

InitConsole == \E d \in Dims : InitConsoleAt(d)

Init ==
    /\ InitConsole
    /\ w_text = <<>>
    /\ w_width = 1
    /\ w_lines = <<>>

\* the caller thread calls log() and the call runs to its end
CallLog ==
    /\ pcL = "idle"
    /\ \E a \in LogCalls :
          LET c == log(Self, a.args, a.details)
          IN  InScrollBound(c) /\ SetSelf(c)
    /\ UNCHANGED <<pcW, lastKey, pcL, logText, histVars, wrapVars>>

\* Console.update on the worker thread: a tick that reads no key
UpdateNoKey ==
    /\ pcW = "poll"
    /\ UNCHANGED vars

\* on_keypress(k) without the final self.render(): the worker polls again
KeyPressNoRender(k, rows, cols) ==
    LET r == on_keypress(Self, k, rows, cols)
    IN  /\ InScrollBound(r.c)
        /\ InCommandBound(r.c)
        /\ SetSelf(r.c)
        /\ lastKey' = k
        /\ pcW' = IF r.quit THEN "exited" ELSE "poll"

\* the worker runs on_keypress(k) up to its final render; (rows, cols) is the
\* size the terminal has then
KeyPress(k, rows, cols) ==
    LET r == on_keypress(Self, k, rows, cols)
    IN  /\ InScrollBound(r.c)
        /\ InCommandBound(r.c)
        /\ SetSelf(r.c)
        /\ lastKey' = k
        /\ pcW' = IF r.quit THEN "exited" ELSE "render"

\* Console.update on the worker thread: a tick that reads a key
UpdateKey ==
    /\ pcW = "poll"
    /\ \E k \in Keys \ {RESIZE} : KeyPress(k, height + 1, width)
    /\ UNCHANGED <<pcL, logText, histVars, wrapVars>>

\* Console.update on the worker thread: a tick that reads KEY_RESIZE, which
\* curses delivers after the terminal changed its size
UpdateResize ==
    /\ pcW = "poll"
    /\ \E d \in Dims : KeyPress(RESIZE, d[1], d[2])
    /\ UNCHANGED <<pcL, logText, histVars, wrapVars>>

\* the self.render() that ends on_keypress: it draws render(Self) on the
\* curses window and changes no field; an exception ends the thread
RenderCall ==
    /\ pcW = "render"
    /\ pcW' = IF render_raises(Self) THEN "crashed" ELSE "poll"
    /\ lastKey' = NO_KEY
    /\ UNCHANGED <<consoleVars, pcL, logText, wrapVars>>

Render == RenderCall /\ UNCHANGED histVars

(* The caller thread inside log(), one step per statement: the worker may  *)
(* run between any two of them, since nothing in the code excludes it.     *)

\* lines 114-118: the TextComponent is built at the current width
LogBegin ==
    /\ pcL = "idle"
    /\ \E a \in LogCalls : logText' = log_text(Self, a.args, a.details)
    /\ pcL' = "evict"
    /\ UNCHANGED <<consoleVars, pcW, lastKey, histVars, wrapVars>>

\* lines 120-122
LogEvict ==
    /\ pcL = "evict"
    /\ InScrollBound(log_evict(Self))
    /\ SetSelf(log_evict(Self))
    /\ pcL' = "append"
    /\ UNCHANGED <<pcW, lastKey, logText, histVars, wrapVars>>

\* line 124
LogAppend ==
    /\ pcL = "append"
    /\ SetSelf(log_append(Self, logText))
    /\ pcL' = "nudge"
    /\ UNCHANGED <<pcW, lastKey, logText, histVars, wrapVars>>

\* lines 126-127
LogNudge ==
    /\ pcL = "nudge"
    /\ InScrollBound(log_nudge(Self))
    /\ SetSelf(log_nudge(Self))
    /\ pcL' = "scroll"
    /\ UNCHANGED <<pcW, lastKey, logText, histVars, wrapVars>>

\* lines 129-130, and the return
LogScroll ==
    /\ pcL = "scroll"
    /\ InScrollBound(log_scroll(Self, logText))
    /\ SetSelf(log_scroll(Self, logText))
    /\ pcL' = "idle"
    /\ logText' = None
    /\ UNCHANGED <<pcW, lastKey, histVars, wrapVars>>

(* The wrapping harness: TextComponent.lines and TextComponent.details on  *)
(* every string over WrapChars of length <= MaxWrapLen and every width in  *)
(* 1..MaxWrapWidth.                                                        *)

WrapChars == {97, 98, NEWLINE}

WrapStrings == UNION {[1..n -> WrapChars] : n \in 0..MaxWrapLen}

WrapInit ==
    /\ InitConsole
    /\ w_text \in WrapStrings
    /\ w_width \in 1..MaxWrapWidth
    /\ w_lines = <<>>

\* text.lines, for TextComponent(w_text, "No details", w_width)
WrapLines ==
    /\ w_lines = <<>>
    /\ w_lines' = TextComponent_lines(TextComponent(w_text, NoDetails, w_width))
    /\ UNCHANGED <<consoleVars, pcW, lastKey, pcL, logText, histVars,
                   w_text, w_width>>

\* text.details, for TextComponent("", w_text, w_width)
WrapDetails ==
    /\ w_lines = <<>>
    /\ w_lines' = TextComponent_details(TextComponent(<<>>, w_text, w_width))
    /\ UNCHANGED <<consoleVars, pcW, lastKey, pcL, logText, histVars,
                   w_text, w_width>>

(* The history harness: the same calls, with the entries appended since   *)
(* the last clear() recorded in `appended` and the entry the last render   *)
(* drew in DETAILS mode in `shown`.                                        *)

\* the newest entry of the buffer c
newest(c) == c.buffer[Len(c.buffer)]

\* the caller thread calls log(), which appends one entry
HistLog ==
    /\ pcL = "idle"
    /\ Len(appended) < MaxAppended
    /\ \E a \in LogCalls :
          LET c == log(Self, a.args, a.details)
          IN  /\ InScrollBound(c)
              /\ SetSelf(c)
              /\ appended' = Append(appended, newest(c))
    /\ UNCHANGED <<pcW, lastKey, pcL, logText, shown, wrapVars>>

\* the worker handles a key: Ctrl-L in LOGS mode calls clear(), and the keys
\* of on_keypress_logs append one entry through log()
HistKey ==
    /\ pcW = "poll"
    /\ \E k \in Keys \ {RESIZE} :
          /\ KeyPress(k, height + 1, width)
          /\ appended' =
                IF state = LOGS /\ k = CTRL_L THEN <<>>
                ELSE IF on_keypress_logs(Self, k)
                THEN Append(appended, newest(on_keypress(Self, k, height + 1,
                                                         width).c))
                ELSE appended
    /\ Len(appended') <= MaxAppended
    /\ shown' = IF state' = DETAILS THEN shown ELSE None
    /\ UNCHANGED <<pcL, logText, wrapVars>>

\* the render, with the entry it draws in DETAILS mode recorded in `shown`
HistRender ==
    /\ RenderCall
    /\ shown' = IF state = DETAILS THEN get_text(Self, current_line(Self))
                ELSE None
    /\ UNCHANGED appended

Next == CallLog \/ UpdateNoKey \/ UpdateKey \/ UpdateResize \/ Render

Spec == Init /\ [][Next]_vars

\* the two threads with log() interleaved statement by statement
RaceNext ==
    \/ LogBegin \/ LogEvict \/ LogAppend \/ LogNudge \/ LogScroll
    \/ UpdateNoKey \/ UpdateKey \/ UpdateResize \/ Render

RaceSpec == Init /\ [][RaceNext]_vars

(* The narrow terminal: the same console on a terminal of NarrowDims, where *)
(* the width limits the command.                                           *)

NarrowInit ==
    /\ \E d \in NarrowDims : InitConsoleAt(d)
    /\ w_text = <<>>
    /\ w_width = 1
    /\ w_lines = <<>>

\* Console.update on the worker thread: a tick that reads KEY_RESIZE
NarrowResize ==
    /\ pcW = "poll"
    /\ \E d \in NarrowDims : KeyPress(RESIZE, d[1], d[2])
    /\ UNCHANGED <<pcL, logText, histVars, wrapVars>>

NarrowNext == CallLog \/ UpdateNoKey \/ UpdateKey \/ NarrowResize \/ Render

NarrowSpec == NarrowInit /\ [][NarrowNext]_vars

HistNext == HistLog \/ HistKey \/ UpdateNoKey \/ HistRender

\* the history harness runs on a terminal of three rows, which it never resizes
HistInit == Init /\ height = 2

HistSpec == HistInit /\ [][HistNext]_vars

WrapNext == WrapLines \/ WrapDetails

WrapSpec == WrapInit /\ [][WrapNext]_vars

-----------------------------------------------------------------------------
(* Properties.                                                             *)

\* the sum of the wrapped-line counts over the buffer
totalLines == SumLines(buffer)

\* the worker is about to handle key k: the step that sets lastKey to k
Handles(k) == pcW = "poll" /\ lastKey' = k

\* C1: after any sequence of log() calls and key events the buffer holds at
\* most buffer_size entries.
BufferWithinCapacity == Len(buffer) <= buffer_size

\* C2: in every state between operations, 0 <= scroll <= max(0, totalLines -
\* height).
ScrollWithinBounds ==
    0 <= scroll /\ scroll <= Max(0, totalLines - height)

\* C3: with a non-empty buffer 0 <= cursor_y <= min(height - 1, totalLines -
\* scroll - 1); with an empty buffer cursor_y = 0.
CursorWithinContent ==
    IF buffer = <<>>
    THEN cursor_y = 0
    ELSE 0 <= cursor_y /\ cursor_y <= Min(height - 1, totalLines - scroll - 1)

\* C4: the caller thread is never between two mutations of one log() call
\* (the entry is appended, the scroll increment of lines 129-130 is still to
\* come) while the worker thread is inside on_keypress.
LogExcludesWorker ==
    ~(pcL = "scroll" /\ Len(buffer) > height /\ pcW = "render")

\* C5: Escape handled in Details sets the mode to Browsing; handled in
\* CommandEntry it sets the mode to Browsing and empties the command; handled
\* in Browsing it calls quit(), and from then on the worker handles no key
\* and renders nothing.
EscapeClosure ==
    [][/\ (Handles(ESCAPE) /\ state = DETAILS) =>
              (state' = LOGS /\ pcW' = "render")
       /\ (Handles(ESCAPE) /\ state = COMMAND) =>
              (state' = LOGS /\ command' = <<>> /\ pcW' = "render")
       /\ (Handles(ESCAPE) /\ state = LOGS) => pcW' = "exited"
       /\ pcW = "exited" => (pcW' = "exited" /\ lastKey' = lastKey)]_vars

\* C5, witness: Escape was handled in Browsing and the worker has ended
EscapeQuitWitness == pcW = "exited" /\ lastKey = ESCAPE /\ buffer # <<>>

\* the entry that owns the flattened line index `line`: the i-th entry, where
\* the entries before it hold at most `line` lines and those up to it more
Owners(buf, line) ==
    {i \in 1..Len(buf) :
        /\ SumLines(SubSeq(buf, 1, i - 1)) <= line
        /\ line < SumLines(SubSeq(buf, 1, i))}

\* C6: Enter handled in Browsing sets the mode to Details, and the render
\* that follows raises nothing and writes, from row 0, the wrapped details of
\* the entry that owns line cursor_y + scroll.
EnterShowsDetails ==
    [][(Handles(ENTER) /\ state = LOGS) =>
          /\ state' = DETAILS
          /\ ~render_raises(Self')
          /\ \E i \in Owners(buffer', cursor_y' + scroll') :
                render(Self').content = TextComponent_details(buffer'[i])]_vars

\* C7: Enter handled in CommandEntry appends exactly one entry, whose text is
\* "Command executed: /" followed by the command as it was, and leaves the
\* mode Browsing and the command empty.
CommandEnterLogs ==
    [][(Handles(ENTER) /\ state = COMMAND) =>
          /\ state' = LOGS
          /\ command' = <<>>
          /\ Len(buffer') >= 1
          /\ buffer'[Len(buffer')].text = CommandExecutedPrefix \o command
          /\ SubSeq(buffer', 1, Len(buffer') - 1)
                \in {buffer, IF buffer = <<>> THEN <<>> ELSE Tail(buffer)}]_vars

\* C7, witness: the command "/" was entered and its confirmation is the
\* newest entry
CommandEnterWitness ==
    /\ pcW = "render" /\ lastKey = ENTER /\ state = LOGS
    /\ buffer # <<>>
    /\ buffer[Len(buffer)].text = CommandExecutedPrefix \o <<SLASH>>

\* C8: after a Resize handled in Browsing scroll = max(0, totalLines -
\* height) for the new height, with totalLines counting wrapped lines, and
\* the cursor is inside the new grid.
ResizePinsToBottom ==
    [][(Handles(RESIZE) /\ state = LOGS) =>
          /\ scroll' = Max(0, SumLines(buffer') - height')
          /\ 0 <= cursor_y' /\ cursor_y' <= height' - 1
          /\ 0 <= cursor_x' /\ cursor_x' <= width' - 1]_vars

\* the concatenation of a sequence of strings
RECURSIVE Flatten(_)
Flatten(ls) == IF Len(ls) = 0 THEN <<>> ELSE Head(ls) \o Flatten(Tail(ls))

\* the positions that delimit the newline-free runs of s
Delimiters(s) == {0, Len(s) + 1} \cup {i \in 1..Len(s) : s[i] = NEWLINE}

\* the length of the run of s that starts after delimiter a
RunAfter(s, a) ==
    (CHOOSE b \in Delimiters(s) :
        b > a /\ \A x \in Delimiters(s) : x > a => b <= x) - a - 1

\* the lines a run of n characters takes at width w: one for an empty run,
\* else n / w rounded up
LinesOfRun(n, w) == IF n = 0 THEN 1 ELSE (n + w - 1) \div w

RECURSIVE SumRuns(_, _, _)
SumRuns(s, w, ds) ==
    IF ds = {} THEN 0
    ELSE LET a == CHOOSE x \in ds : TRUE
         IN  LinesOfRun(RunAfter(s, a), w) + SumRuns(s, w, ds \ {a})

\* C9: for every string and width >= 1 the wrapped lines are each at most
\* the width long, concatenate to the string without its newlines, and are as
\* many as the runs between newlines need: one per empty run, and
\* length / width rounded up per other run (no extra empty line at an exact
\* multiple of the width).
WrapCorrect ==
    w_lines # <<>> =>
        /\ \A i \in 1..Len(w_lines) : Len(w_lines[i]) <= w_width
        /\ Flatten(w_lines) = SelectSeq(w_text, LAMBDA ch : ch # NEWLINE)
        /\ Len(w_lines) =
              SumRuns(w_text, w_width, Delimiters(w_text) \ {Len(w_text) + 1})

\* C9, witness: "ab\n\n" wrapped at width 2: a run of exactly the width and
\* two empty runs
WrapWitness ==
    w_lines # <<>> /\ w_width = 2 /\ w_text = <<97, 98, NEWLINE, NEWLINE>>

\* C10: a key code that is no recognized key and not printable (KEY_LEFT)
\* changes nothing in any mode.
UnknownKeyIgnored ==
    [][Handles(KEY_LEFT) => UNCHANGED consoleVars]_vars

\* C11: End handled in Browsing with a non-empty buffer leaves the cursor on
\* the last wrapped line: cursor_y + scroll = totalLines - 1.
EndReachesLastLine ==
    [][(Handles(END) /\ state = LOGS /\ buffer # <<>>) =>
          cursor_y' + scroll' = SumLines(buffer') - 1]_vars

\* the viewport is pinned to the bottom of the buffer c
AtBottom(c) == c.scroll = Max(0, Console_lines(c) - c.height)

\* C12: a log() call that starts with scroll = max(0, totalLines - height)
\* ends with scroll = max(0, totalLines - height) for the new totalLines.
LogKeepsBottom ==
    [][(CallLog /\ AtBottom(Self)) => AtBottom(Self')]_vars

\* C13: the eviction of a log() call lowers scroll by the wrapped-line count
\* of the entry it removes.
EvictionKeepsRows ==
    [][(pcL = "evict" /\ pcL' = "append" /\ Len(buffer) > buffer_size) =>
          /\ buffer' = Tail(buffer)
          /\ scroll' = scroll - Len(TextComponent_lines(Head(buffer)))]_vars

\* C14: a log() call made with the cursor on the last wrapped line of a
\* non-empty buffer and cursor_y < height - 1 raises cursor_y by exactly one;
\* made on an empty buffer at (0, 0) it leaves one entry and the cursor there.
LogNudgesCursor ==
    [][/\ (/\ CallLog
           /\ buffer # <<>>
           /\ cursor_y + scroll = totalLines - 1
           /\ cursor_y < height - 1) => cursor_y' = cursor_y + 1
       /\ (/\ CallLog
           /\ buffer = <<>>
           /\ cursor_x = 0 /\ cursor_y = 0) =>
              (Len(buffer') = 1 /\ cursor_x' = 0 /\ cursor_y' = 0)]_vars

\* the wrapped lines of the buffer, one after the other
RECURSIVE FlatLines(_)
FlatLines(buf) ==
    IF Len(buf) = 0 THEN <<>>
    ELSE TextComponent_lines(Head(buf)) \o FlatLines(Tail(buf))

\* C15: a render in Browsing or CommandEntry writes content to rows 0 ..
\* height - 1 only, and row i receives the wrapped line of flattened index
\* i + scroll when the buffer has one; the status row receives no content.
RenderRowsInViewport ==
    (pcW = "render" /\ state # DETAILS /\ ~render_raises(Self)) =>
        LET content == render(Self).content
        IN  /\ Len(content) <= height
            /\ \A i \in 0..(height - 1) :
                  (0 <= i + scroll /\ i + scroll < totalLines) =>
                      /\ i < Len(content)
                      /\ content[i + 1] = FlatLines(buffer)[i + scroll + 1]

\* C16: the buffer is a contiguous suffix, in order, of the entries appended
\* since the last clear(); a step takes an entry out of the buffer only as the
\* eviction of the earliest one by a log() that appends, or by clear().
BufferIsSuffix ==
    /\ [](/\ Len(buffer) <= Len(appended)
          /\ buffer = SubSeq(appended, Len(appended) - Len(buffer) + 1,
                             Len(appended)))
    /\ [][\/ buffer' = buffer
          \/ (buffer' = <<>> /\ appended' = <<>>)
          \/ /\ buffer' # <<>>
             /\ \/ buffer' = Append(buffer, newest(Self'))
                \/ /\ buffer # <<>>
                   /\ buffer' = Append(Tail(buffer), newest(Self'))]_vars

\* C16, witness: one entry more than the buffer holds was appended, the
\* last one by a key the worker handled, and the first of them was evicted
EvictedWitness ==
    /\ Len(appended) = buffer_size + 2
    /\ Len(buffer) = buffer_size + 1
    /\ appended[1] # appended[2]
    /\ pcW = "render"

\* C17, as stated: every key the worker consumes is followed by a render
\* before the next key is read.
RenderAfterEveryKey ==
    [][(pcW = "poll" /\ lastKey' # lastKey) => pcW' = "render"]_vars

\* C17, amended: a key the worker consumes leaves exactly one render pending,
\* except Escape in Browsing, which ends the worker with no render; while the
\* render is pending no key is read, and the render returns the worker to
\* polling (or ends it with its exception); without a consumed key no render
\* becomes pending.
PollTickOrder ==
    [][/\ (pcW = "poll" /\ lastKey' # lastKey) =>
              \/ pcW' = "render"
              \/ (lastKey' = ESCAPE /\ state = LOGS /\ pcW' = "exited")
       /\ (pcW = "poll" /\ lastKey' = lastKey) => pcW' = "poll"
       /\ pcW = "render" =>
              \/ (pcW' = "render" /\ lastKey' = lastKey)
              \/ (pcW' \in {"poll", "crashed"} /\ lastKey' = NO_KEY
                     /\ UNCHANGED consoleVars)]_vars

\* C17, witness: two keys ("/" twice) were consumed, each followed by its
\* render, and the worker polls again
PollAfterTwoKeys ==
    pcW = "poll" /\ lastKey = NO_KEY /\ state = COMMAND /\ command = <<SLASH>>

\* C18: in Details a key other than Escape leaves state, buffer, scroll,
\* cursor_x, cursor_y, width, height and command unchanged.
DetailsIgnoresKeys ==
    [][(pcW = "poll" /\ lastKey' # lastKey /\ lastKey' # ESCAPE
           /\ state = DETAILS) => UNCHANGED consoleVars]_vars

\* C18, witness: Ctrl-L was handled in Details with a non-empty buffer
DetailsKeyWitness ==
    pcW = "render" /\ lastKey = CTRL_L /\ state = DETAILS /\ buffer # <<>>

\* C19: the command holds characters 32..126 only, is at most
\* max(0, width - 2) long and is empty whenever the mode is not CommandEntry;
\* Backspace handled in CommandEntry with an empty command changes nothing.
CommandWellFormed ==
    /\ [](/\ \A i \in 1..Len(command) : 32 <= command[i] /\ command[i] <= 126
          /\ Len(command) <= Max(0, width - 2)
          /\ state # COMMAND => command = <<>>)
    /\ [][(Handles(BACKSPACE) /\ state = COMMAND /\ command = <<>>) =>
             UNCHANGED consoleVars]_vars

\* C19, witness: at width 3 the command "/" has the full length width - 2,
\* and a key that is not printable was handled in CommandEntry
CommandFullWitness ==
    /\ pcW = "render" /\ lastKey = KEY_LEFT /\ state = COMMAND
    /\ width = 3 /\ command = <<SLASH>>

\* C20: while the mode stays Details, every render draws the details of the
\* entry the previous render in Details drew, also when log() was called in
\* between.
DetailsEntryStable ==
    [][(pcW = "render" /\ pcW' # "render" /\ state = DETAILS /\ shown # None)
          => shown' = shown]_vars

====
